---- MODULE Spec2Model ----
(***************************************************************************)
(* A model of tteague19/app-python:                                        *)
(*   src/api/neo4j.py       the driver handle kept on the Flask app        *)
(*   src/api/dao/movies.py  MovieDAO, the read layer over the movie graph  *)
(*                                                                         *)
(* The specifications share the variables:                                 *)
(*   Spec, SpecOnce  MovieDAO.all and get_movies over a fixed graph        *)
(*   SpecStubs   the list operations and find_by_id that answer from the   *)
(*               fixtures `popular` and `goodfellas`                       *)
(*   SpecDriver  init_driver / get_driver / close_driver                   *)
(***************************************************************************)
EXTENDS Integers, Sequences, FiniteSets

\* ---------------------------------------------------------------- bounds

\* Movie nodes in the graph: tmdbId 1..NumMovies.
NumMovies == 3
\* A present `year` property has a value in 1..MaxVal.
MaxVal == 2
\* limit ranges over 1..MaxPage, skip over 0..MaxPage.
MaxPage == 2
\* Length of the fixture list `popular` ranges over 0..MaxPopular.
MaxPopular == 3
\* Drivers that init_driver may construct in one run.
MaxDrivers == 3

\* ------------------------------------------------------------- variables

VARIABLES
    year,        \* graph: movie -> value of its `year` property, Absent if none
    favorites,   \* graph: movies user "u1" has a favorite relationship to
    popular,     \* api.data.popular: the fixture list the stubs slice
    query,       \* the Cypher text get_movies built last
    last,        \* the last MovieDAO call: its arguments and what it returned
    driver,      \* current_app.driver
    closeCount,  \* driver -> how many times Driver.close() ran on it
    created,     \* how many drivers GraphDatabase.driver() has constructed
    lastCall,    \* the last api.neo4j function called
    streak,      \* how many times in a row lastCall was called (capped at 2)
    raised,      \* whether that call raised
    returned,    \* what that call returned
    inited,      \* whether some init_driver call returned normally
    lastStored,  \* the driver the most recent storing init_driver stored
    closedSince  \* whether close_driver was called after that init_driver

vars == <<year, favorites, popular, query, last, driver, closeCount, created,
          lastCall, streak, raised, returned, inited, lastStored, closedSince>>

daoVars == <<year, favorites, popular, query, last>>

driverVars == <<driver, closeCount, created, lastCall, streak, raised,
                returned, inited, lastStored, closedSince>>

\* ------------------------------------------------------------ the graph

Movies == 1..NumMovies

\* The value standing for "the node has no such property".
Absent == 0

\* Every movie has a title; titles are distinct and modelled by their rank.
title == [m \in Movies |-> m]

\* m { .* }: the map of the properties the node has.
Node(m) ==
    [p \in {"tmdbId", "title"} \cup (IF year[m] = Absent THEN {} ELSE {"year"}) |->
        CASE p = "tmdbId" -> m
          [] p = "title" -> title[m]
          [] OTHER -> year[m]]

\* Cypher orders null after every value; this rank is above every value.
NullRank == NumMovies + MaxVal + 1

\* m.`p` as an ORDER BY key.
OrderKey(m, p) == IF p \in DOMAIN Node(m) THEN Node(m)[p] ELSE NullRank

\* -------------------------------------------------------------- inputs

\* Values of `sort`: two property names of the graph and one that no node has.
SortProps == {"title", "year"}
Sorts == SortProps \cup {"bogus"}
Orders == {"ASC", "DESC"}
NoUser == "None"
UserIds == {NoUser, "u1"}
Limits == 1..MaxPage
Skips == 0..MaxPage

Min(a, b) == IF a <= b THEN a ELSE b
Max(a, b) == IF a >= b THEN a ELSE b

\* ------------------------------------------------- MovieDAO.get_movies

\* A mutation of CypherQuery: ORDER BY always ascending.
CypherQueryAscOnly(sort, order) ==
    [whereExists |-> sort, orderBy |-> sort, dir |-> "ASC"]

\* A mutation of CypherQuery: the exists() filter names the title.
CypherQueryNoFilter(sort, order) ==
    [whereExists |-> "title", orderBy |-> sort, dir |-> order]

\* The query text of get_movies: `sort` is interpolated into the exists()
\* filter and the ORDER BY clause, `order` into the ORDER BY clause.
CypherQuery(sort, order) ==
    [whereExists |-> sort, orderBy |-> sort, dir |-> order]

\* MATCH (m:Movie) WHERE exists(m.`p`)
Matching(q) == {m \in Movies : q.whereExists \in DOMAIN Node(m)}

InOrder(a, b, q) ==
    IF q.dir = "ASC" THEN OrderKey(a, q.orderBy) <= OrderKey(b, q.orderBy)
                     ELSE OrderKey(a, q.orderBy) >= OrderKey(b, q.orderBy)

\* ORDER BY m.`p` dir: every arrangement of the matching rows that is sorted
\* on the key. Cypher leaves the order of rows with equal keys open, so each
\* execution may produce any of them.
Orderings(q) ==
    LET rows == Matching(q)
        n == Cardinality(rows)
    IN  {s \in [1..n -> rows] :
            /\ \A i, j \in 1..n : i /= j => s[i] /= s[j]
            /\ \A i \in 1..n : i < n => InOrder(s[i], s[i + 1], q)}

\* SKIP $skip LIMIT $limit over one ordering, each row returned as m { .* }.
Window(s, limit, skip) ==
    [i \in 1..Max(0, Min(limit, Len(s) - skip)) |-> Node(s[skip + i])]

\* MovieDAO.all: one read transaction running get_movies.
All ==
    \E sort \in Sorts, order \in Orders :
      LET q == CypherQuery(sort, order) IN
      \E s \in Orderings(q) :
        \E limit \in Limits, skip \in Skips, user_id \in UserIds :
          /\ query' = q
          /\ last' = [op |-> "all", id |-> 0, sort |-> sort, order |-> order,
                      limit |-> limit, skip |-> skip, user_id |-> user_id,
                      outcome |-> "ok", result |-> Window(s, limit, skip)]
          /\ UNCHANGED <<year, favorites, popular>>
          /\ UNCHANGED driverVars

NoQuery == [whereExists |-> "", orderBy |-> "", dir |-> ""]

NoCall == [op |-> "none", id |-> 0, sort |-> "", order |-> "", limit |-> 0,
           skip |-> 0, user_id |-> NoUser, outcome |-> "ok", result |-> <<>>]

\* ----------------------------------------------------------- the fixtures

\* An entry of the fixture data imported from api.data.
FixtureMovie(i) == [tmdbId |-> i, title |-> i]

\* api.data.goodfellas: the one movie find_by_id answers with.
goodfellas == FixtureMovie(1)

\* Ids a caller may pass: those of the movies, and one that matches no movie.
Ids == 1..(NumMovies + 1)

\* Python's seq[lo:hi] for 0 <= lo, 0 <= hi.
PySlice(seq, lo, hi) ==
    [i \in 1..Max(0, Min(hi, Len(seq)) - lo) |-> seq[lo + i]]

\* What every list stub returns: popular[skip:limit].
StubResult(limit, skip) == PySlice(popular, skip, limit)

\* MovieDAO.get_by_genre; the genre name is modelled by a number.
GetByGenre ==
    \E name \in Ids, sort \in Sorts, order \in Orders,
       limit \in Limits, skip \in Skips, user_id \in UserIds :
        /\ last' = [op |-> "get_by_genre", id |-> name, sort |-> sort,
                    order |-> order, limit |-> limit, skip |-> skip,
                    user_id |-> user_id, outcome |-> "ok",
                    result |-> StubResult(limit, skip)]
        /\ UNCHANGED <<year, favorites, popular, query>>
        /\ UNCHANGED driverVars

\* MovieDAO.get_for_actor
GetForActor ==
    \E id \in Ids, sort \in Sorts, order \in Orders,
       limit \in Limits, skip \in Skips, user_id \in UserIds :
        /\ last' = [op |-> "get_for_actor", id |-> id, sort |-> sort,
                    order |-> order, limit |-> limit, skip |-> skip,
                    user_id |-> user_id, outcome |-> "ok",
                    result |-> StubResult(limit, skip)]
        /\ UNCHANGED <<year, favorites, popular, query>>
        /\ UNCHANGED driverVars

\* MovieDAO.get_for_director
GetForDirector ==
    \E id \in Ids, sort \in Sorts, order \in Orders,
       limit \in Limits, skip \in Skips, user_id \in UserIds :
        /\ last' = [op |-> "get_for_director", id |-> id, sort |-> sort,
                    order |-> order, limit |-> limit, skip |-> skip,
                    user_id |-> user_id, outcome |-> "ok",
                    result |-> StubResult(limit, skip)]
        /\ UNCHANGED <<year, favorites, popular, query>>
        /\ UNCHANGED driverVars

\* MovieDAO.get_similar_movies: no sort or order argument, the id is not used.
GetSimilarMovies ==
    \E id \in Ids, limit \in Limits, skip \in Skips, user_id \in UserIds :
        /\ last' = [op |-> "get_similar_movies", id |-> id, sort |-> "",
                    order |-> "", limit |-> limit, skip |-> skip,
                    user_id |-> user_id, outcome |-> "ok",
                    result |-> StubResult(limit, skip)]
        /\ UNCHANGED <<year, favorites, popular, query>>
        /\ UNCHANGED driverVars

\* MovieDAO.find_by_id: returns goodfellas whatever the id.
FindById ==
    \E id \in Ids, user_id \in UserIds :
        /\ last' = [op |-> "find_by_id", id |-> id, sort |-> "", order |-> "",
                    limit |-> 0, skip |-> 0, user_id |-> user_id,
                    outcome |-> "ok", result |-> <<goodfellas>>]
        /\ UNCHANGED <<year, favorites, popular, query>>
        /\ UNCHANGED driverVars

ListStubs == {"get_by_genre", "get_for_actor", "get_for_director",
              "get_similar_movies"}

\* ------------------------------------------------------------ api.neo4j

\* current_app has no attribute `driver` yet.
Unset == -1
\* Python's None.
None == 0

Drivers == 1..MaxDrivers

\* How a call of init_driver can end: GraphDatabase.driver() raises,
\* verify_connectivity() raises, or it returns the driver.
InitOutcomes == {"driver_raises", "verify_raises", "ok"}

Called(f) ==
    /\ lastCall' = f
    /\ streak' = IF lastCall = f THEN 2 ELSE 1

\* init_driver: the new driver is stored before its connectivity is verified.
InitDriver ==
    /\ created < MaxDrivers
    /\ \E outcome \in InitOutcomes :
        /\ Called("init_driver")
        /\ IF outcome = "driver_raises"
           THEN /\ raised' = TRUE
                /\ returned' = None
                /\ UNCHANGED <<driver, created, inited, lastStored, closedSince>>
           ELSE /\ created' = created + 1
                /\ driver' = created + 1
                /\ lastStored' = created + 1
                /\ closedSince' = FALSE
                /\ raised' = (outcome = "verify_raises")
                /\ returned' = IF outcome = "ok" THEN created + 1 ELSE None
                /\ inited' = (inited \/ outcome = "ok")
        /\ UNCHANGED closeCount
        /\ UNCHANGED daoVars

\* get_driver: return current_app.driver.
GetDriver ==
    /\ Called("get_driver")
    /\ raised' = (driver = Unset)
    /\ returned' = IF driver = Unset THEN None ELSE driver
    /\ UNCHANGED <<driver, closeCount, created, inited, lastStored, closedSince>>
    /\ UNCHANGED daoVars

\* A mutation of CloseDriver: no test that a driver is stored.
CloseDriverNoGuard ==
    /\ Called("close_driver")
    /\ raised' = (driver \notin Drivers)
    /\ returned' = None
    /\ IF driver \in Drivers
       THEN /\ closeCount' = [closeCount EXCEPT ![driver] = @ + 1]
            /\ driver' = None
       ELSE UNCHANGED <<closeCount, driver>>
    /\ closedSince' = (closedSince \/ driver /= Unset)
    /\ UNCHANGED <<created, inited, lastStored>>
    /\ UNCHANGED daoVars

\* A mutation of CloseDriver: the handle is not reset to None.
CloseDriverKeepsHandle ==
    /\ Called("close_driver")
    /\ raised' = (driver = Unset)
    /\ returned' = None
    /\ closeCount' = IF driver \in Drivers
                     THEN [closeCount EXCEPT ![driver] = Min(@ + 1, 2)]
                     ELSE closeCount
    /\ closedSince' = (closedSince \/ driver /= Unset)
    /\ UNCHANGED <<driver, created, inited, lastStored>>
    /\ UNCHANGED daoVars

\* close_driver: close the stored driver, if any, and store None.
CloseDriver ==
    /\ Called("close_driver")
    /\ raised' = (driver = Unset)
    /\ returned' = None
    /\ IF driver \in Drivers
       THEN /\ closeCount' = [closeCount EXCEPT ![driver] = @ + 1]
            /\ driver' = None
       ELSE UNCHANGED <<closeCount, driver>>
    /\ closedSince' = (closedSince \/ driver /= Unset)
    /\ UNCHANGED <<created, inited, lastStored>>
    /\ UNCHANGED daoVars

\* --------------------------------------------------------- specifications

\* The handle a MovieDAO is constructed with: one open driver.
DriverIdle ==
    /\ driver = 1
    /\ closeCount = [d \in Drivers |-> 0]
    /\ created = 1
    /\ lastCall = "init_driver"
    /\ streak = 1
    /\ raised = FALSE
    /\ returned = 1
    /\ inited = TRUE
    /\ lastStored = 1
    /\ closedSince = FALSE

\* The graph is arbitrary and does not change; the DAO holds an open driver.
Init ==
    /\ year \in [Movies -> {Absent} \cup (1..MaxVal)]
    /\ favorites \in SUBSET Movies
    /\ popular = <<>>
    /\ query = NoQuery
    /\ last = NoCall
    /\ DriverIdle

Next == All

\* Any number of MovieDAO.all calls against one graph.
Spec == Init /\ [][Next]_vars

\* One MovieDAO.all call against each graph. all() reads the graph only and
\* does not depend on earlier calls, so Spec reaches the same states.
FirstCall == last = NoCall /\ All

SpecOnce == Init /\ [][FirstCall]_vars

\* The fixture list has any length up to MaxPopular.
InitStubs ==
    /\ year = [m \in Movies |-> Absent]
    /\ favorites = {}
    /\ \E n \in 0..MaxPopular : popular = [i \in 1..n |-> FixtureMovie(i)]
    /\ query = NoQuery
    /\ last = NoCall
    /\ DriverIdle

NextStubs ==
    \/ GetByGenre
    \/ GetForActor
    \/ GetForDirector
    \/ GetSimilarMovies
    \/ FindById

SpecStubs == InitStubs /\ [][NextStubs]_vars

\* The Flask app before init_driver has run.
InitDriverSpec ==
    /\ year = [m \in Movies |-> Absent]
    /\ favorites = {}
    /\ popular = <<>>
    /\ query = NoQuery
    /\ last = NoCall
    /\ driver = Unset
    /\ closeCount = [d \in Drivers |-> 0]
    /\ created = 0
    /\ lastCall = "none"
    /\ streak = 0
    /\ raised = FALSE
    /\ returned = None
    /\ inited = FALSE
    /\ lastStored = None
    /\ closedSince = FALSE

NextDriver ==
    \/ InitDriver
    \/ GetDriver
    \/ CloseDriver

SpecDriver == InitDriverSpec /\ [][NextDriver]_vars

\* ----------------------------------------------------------------- claims

Ordered(r, i, sort, order) ==
    /\ sort \in DOMAIN r[i]
    /\ sort \in DOMAIN r[i + 1]
    /\ IF order = "ASC" THEN r[i][sort] <= r[i + 1][sort]
                        ELSE r[i][sort] >= r[i + 1][sort]

\* The first k rows of one sorted ordering, as records.
Prefix(s, k) == [i \in 1..Min(k, Len(s)) |-> Node(s[i])]

\* C1: all() returns at most `limit` records, and all(skip=0, limit=n)
\* followed by all(skip=n, limit=n) with the same sort and order, on the
\* unchanged graph, yields exactly the first 2n records of the sorted
\* ordering: no record in both pages, none of the first 2n missing.
C1_PagesPartition ==
    [][(/\ last.op = "all"
        /\ last'.op = "all"
        /\ last.skip = 0
        /\ last'.skip = last.limit
        /\ last'.limit = last.limit
        /\ last'.sort = last.sort
        /\ last'.order = last.order)
       => LET n == last.limit
              p1 == last.result
              p2 == last'.result
          IN  /\ Len(p1) <= n
              /\ Len(p2) <= n
              /\ \A i \in 1..Len(p1), j \in 1..Len(p2) :
                    p1[i].tmdbId /= p2[j].tmdbId
              /\ \E s \in Orderings(CypherQuery(last.sort, last.order)) :
                    p1 \o p2 = Prefix(s, 2 * n)]_vars

\* C2: every list stub called with skip = s and limit = l returns the slice
\* [s, s+l) of its full list: min(l, max(0, total - s)) elements from index s.
C2_StubsReturnWindow ==
    last.op \in ListStubs =>
        last.result =
            [i \in 1..Min(last.limit, Max(0, Len(popular) - last.skip)) |->
                popular[last.skip + i]]

\* C3: the result of all() is monotonic in the sort property: non-decreasing
\* for order ASC, non-increasing for order DESC.
C3_SortMonotonic ==
    last.op = "all" =>
        \A i \in 1..(Len(last.result) - 1) :
            Ordered(last.result, i, last.sort, last.order)

\* C3 witness: a DESC call returned two records with strictly falling years.
C3_Witness ==
    /\ last.op = "all"
    /\ last.sort = "year"
    /\ last.order = "DESC"
    /\ Len(last.result) >= 2
    /\ last.result[1].year > last.result[2].year

\* C4: a movie whose node lacks the sort property is in no result of all().
C4_MissingSortExcluded ==
    last.op = "all" =>
        \A m \in Movies :
            last.sort \notin DOMAIN Node(m) =>
                \A i \in 1..Len(last.result) : last.result[i].tmdbId /= m

\* C4 witness: some movie has no year, and a call sorted by year returned
\* fewer records than its limit from skip 0, so the window cut nothing off.
C4_Witness ==
    /\ last.op = "all"
    /\ last.sort = "year"
    /\ last.skip = 0
    /\ \E m \in Movies : year[m] = Absent
    /\ Len(last.result) >= 1
    /\ Len(last.result) < last.limit

C6_FindByIdNotFound ==
    (last.op = "find_by_id" /\ last.id \notin Movies) =>
        last.outcome = "NotFound"

\* C7: after init_driver, close_driver stores None, never raises and closes
\* no driver twice; called twice in a row, the second call closes nothing and
\* leaves the stored handle as it is.
C7_CloseIdempotent ==
    [][(lastCall' = "close_driver" /\ driver /= Unset)
       => /\ ~raised'
          /\ driver' = None
          /\ \A d \in Drivers : closeCount'[d] <= 1
          /\ driver \in Drivers => closeCount'[driver] = closeCount[driver] + 1
          /\ lastCall = "close_driver" =>
                (closeCount' = closeCount /\ driver' = driver)]_vars

\* C7 witness: close_driver was called twice in a row after a driver was
\* stored; that driver was closed once.
C7_Witness ==
    /\ lastCall = "close_driver"
    /\ streak = 2
    /\ ~raised
    /\ driver = None
    /\ lastStored \in Drivers
    /\ closeCount[lastStored] = 1

\* C8: a sort value that is not a permitted property name is replaced by
\* "title" in the query, and the call does not fail.
C8_InvalidSortDefaultsToTitle ==
    (last.op = "all" /\ last.sort \notin SortProps) =>
        /\ last.outcome = "ok"
        /\ query.whereExists = "title"
        /\ query.orderBy = "title"

\* C9: get_similar_movies(id, ...) never returns the movie with that id.
C9_SimilarExcludesSelf ==
    last.op = "get_similar_movies" =>
        \A i \in 1..Len(last.result) : last.result[i].tmdbId /= last.id

\* C10: once an init_driver has succeeded, get_driver returns the driver the
\* most recent init_driver stored if no close_driver followed it, None
\* otherwise, and never a driver that was closed.
C10_GetDriverNeverClosed ==
    (inited /\ lastCall = "get_driver") =>
        /\ ~raised
        /\ returned \in Drivers => closeCount[returned] = 0
        /\ returned = IF closedSince THEN None ELSE lastStored

\* C10 witness: a driver was closed, init_driver stored another one, and
\* get_driver returned that one.
C10_Witness ==
    /\ inited
    /\ lastCall = "get_driver"
    /\ returned \in Drivers
    /\ returned = lastStored
    /\ \E d \in Drivers : d /= returned /\ closeCount[d] = 1

====
